---- MODULE Spec2Model ----
(***************************************************************************)
(* Vector<T> over RawMemory<T> (advanced-vector/vector.h).                 *)
(*                                                                         *)
(* A block of raw memory is a sequence of cells; a cell is Uninit (no      *)
(* object lives there) or holds the value of a live T.  Cell i of the      *)
(* model is slot i-1 of the code, so a position p of the model is the      *)
(* iterator begin() + (p - 1).  Every public operation of Vector is one    *)
(* action.  An operation is computed by threading a machine record M      *)
(* through the statements of its body, in source order:                    *)
(*   M.cells[o]  the cells of the block RawMemory object o points to       *)
(*   M.ptr[o]    which allocation that block is (buffer_)                  *)
(*   M.size[o]   size_ of Vector object o                                  *)
(*   M.f         the f-th element operation that may throw will throw      *)
(*               (0: none does)                                            *)
(*   M.threw     an exception is propagating: statements are skipped,      *)
(*               destructors of locals still run                           *)
(*   M.raised    an element operation has thrown                           *)
(*   M.made      objects constructed                                       *)
(*   M.destroyed destructor calls on live objects                          *)
(*   M.reused    live objects whose cell a new object was constructed in   *)
(*   M.lost      live objects in blocks at the time they were released     *)
(*   M.dead      destructor calls on cells that held no live object        *)
(*   M.ret       the iterator the call returns                             *)
(*   M.early     the new element was constructed before anything else      *)
(*               was constructed and while the array was untouched         *)
(* pushedOnly records that the array a was default-constructed and that    *)
(* nothing but PushBack has been called on it since.                       *)
(***************************************************************************)
EXTENDS Integers, Sequences, FiniteSets, TLC

VARIABLES T, alive, data_, size_, pushedOnly, last

vars == <<T, alive, data_, size_, pushedOnly, last>>

\* ---------------------------------------------------------------- bounds
\* The most elements an array holds, the most slots the two blocks have
\* together, and the latest throwing element operation of a call that throws.
MaxSize == 3
MaxFail == 3
MaxSlots == MaxSize + 1

\* ---------------------------------------------------------------- values
Uninit == 0 - 1
MovedFrom == 0 - 2
Default == 0
Values == {Default, Default + 1}

Vecs == {"a", "b"}
Locals == {"new_data", "new_value", "rhs_copy"}
Objs == Vecs \cup Locals
VObjs == Vecs \cup {"rhs_copy"}

\* Element types, by the four traits the code queries.
Types ==
  { [name |-> "string",   NMC |-> TRUE,  CC |-> TRUE,  NMA |-> TRUE,  CA |-> TRUE],
    [name |-> "thrower",  NMC |-> FALSE, CC |-> TRUE,  NMA |-> FALSE, CA |-> TRUE] }

Live(c) == c # Uninit

LiveIn(cells) == Cardinality({i \in DOMAIN cells : Live(cells[i])})

Raw(n) == [i \in 1..n |-> Uninit]

Min(x, y) == IF x < y THEN x ELSE y

\* ------------------------------------------------------- element operations
\* One element operation that may throw: it throws when the countdown is 1.
Throws(M, canThrow) == canThrow /\ M.f = 1

Tick(M, canThrow) == IF canThrow /\ M.f > 0 THEN M.f - 1 ELSE M.f

\* After n element operations that may throw, none of which threw.
TickN(M, n) == IF M.f > n THEN M.f - n ELSE 0

Raise(M) == [M EXCEPT !.threw = TRUE, !.raised = TRUE, !.f = 0]

LiveAmong(cells, first, n) ==
  Cardinality({i \in first..(first + n - 1) : Live(cells[i])})

\* new (o + i - 1) T(val)
ConstructAt(M, o, i, val, canThrow) ==
  IF M.threw THEN M
  ELSE IF Throws(M, canThrow) THEN Raise(M)
  ELSE [M EXCEPT !.cells[o] = [j \in DOMAIN @ |-> IF j = i THEN val ELSE @[j]],
                 !.made = @ + 1,
                 !.reused = @ + LiveAmong(M.cells[o], i, 1),
                 !.f = Tick(M, canThrow)]

\* o[i] = val (assignment to a live object)
AssignAt(M, o, i, val, canThrow) ==
  IF M.threw THEN M
  ELSE IF Throws(M, canThrow) THEN Raise(M)
  ELSE [M EXCEPT !.cells[o] = [j \in DOMAIN @ |-> IF j = i THEN val ELSE @[j]],
                 !.f = Tick(M, canThrow)]

\* The destructor is run on the cells first..first+n-1 of o (in handlers and
\* destructors too, while an exception propagates).
Destroyed(M, o, first, n) ==
  [M EXCEPT !.cells[o] = [i \in DOMAIN @ |->
                            IF i \in first..(first + n - 1) THEN Uninit ELSE @[i]],
            !.destroyed = @ + LiveAmong(M.cells[o], first, n),
            !.dead = @ + (n - LiveAmong(M.cells[o], first, n))]

\* std::destroy_n(o + first - 1, n)
DestroyN(M, o, first, n) == IF M.threw THEN M ELSE Destroyed(M, o, first, n)

\* n objects are constructed in the cells dfirst.. of d, the i-th with the
\* value vals[i]; when the construction of the f-th throws, the f - 1 made
\* so far are destroyed and the exception is rethrown (the handler of the
\* std::uninitialized_* algorithms).
ConstructN(M, d, dfirst, n, vals, canThrow) ==
  IF canThrow /\ M.f \in 1..n
  THEN Raise([M EXCEPT
         !.cells[d] = [i \in DOMAIN @ |->
                         IF i \in dfirst..(dfirst + M.f - 2) THEN Uninit ELSE @[i]],
         !.made = @ + (M.f - 1),
         !.destroyed = @ + (M.f - 1),
         !.reused = @ + LiveAmong(M.cells[d], dfirst, M.f - 1)])
  ELSE [M EXCEPT
         !.cells[d] = [i \in DOMAIN @ |->
                         IF i \in dfirst..(dfirst + n - 1)
                         THEN vals[i - dfirst + 1] ELSE @[i]],
         !.made = @ + n,
         !.reused = @ + LiveAmong(M.cells[d], dfirst, n),
         !.f = IF canThrow THEN TickN(M, n) ELSE @]

\* std::uninitialized_copy_n(s + sfirst - 1, n, d + dfirst - 1)
UninitializedCopyN(M, s, sfirst, n, d, dfirst) ==
  IF M.threw THEN M
  ELSE ConstructN(M, d, dfirst, n, [j \in 1..n |-> M.cells[s][sfirst + j - 1]], TRUE)

\* std::uninitialized_move_n(s + sfirst - 1, n, d + dfirst - 1).  A const
\* source binds to the copy constructor.  A move constructor that is not
\* noexcept may throw; the sources moved before the throw stay moved-from.
UninitializedMoveN(M, s, sfirst, n, d, dfirst, constSrc) ==
  IF constSrc THEN UninitializedCopyN(M, s, sfirst, n, d, dfirst)
  ELSE IF M.threw THEN M
  ELSE LET moved == IF ~T.NMC /\ M.f \in 1..n THEN M.f - 1 ELSE n
           m1 == ConstructN(M, d, dfirst, n,
                            [j \in 1..n |-> M.cells[s][sfirst + j - 1]], ~T.NMC)
       IN [m1 EXCEPT
            !.cells[s] = [i \in DOMAIN @ |->
                            IF i \in sfirst..(sfirst + moved - 1) THEN MovedFrom ELSE @[i]]]

\* std::uninitialized_value_construct_n(o + first - 1, n)
UninitializedValueConstructN(M, o, first, n) ==
  IF M.threw THEN M
  ELSE ConstructN(M, o, first, n, [j \in 1..n |-> Default], TRUE)

\* ------------------------------------------------------------- RawMemory
\* RawMemory(capacity)
RawMemoryNew(M, o, n) ==
  IF M.threw THEN M
  ELSE [M EXCEPT !.cells[o] = Raw(n), !.ptr[o] = o]

\* ~RawMemory(): the block is released whatever its cells hold.
RawMemoryDelete(M, o) ==
  [M EXCEPT !.lost = @ + LiveIn(M.cells[o]), !.cells[o] = << >>, !.ptr[o] = "null"]

\* RawMemory::Swap
RawMemorySwap(M, o1, o2) ==
  IF M.threw THEN M
  ELSE [M EXCEPT !.cells[o1] = M.cells[o2], !.cells[o2] = M.cells[o1],
                 !.ptr[o1] = M.ptr[o2], !.ptr[o2] = M.ptr[o1]]

Capacity(M, o) == Len(M.cells[o])

SetSize(M, o, n) == IF M.threw THEN M ELSE [M EXCEPT !.size[o] = n]

\* ------------------------------------------------------------ arguments
\* An argument of type const T& or T&&: a temporary of the caller holding
\* the value x, or a reference to element x of the array operated on.
Ext(x) == [kind |-> "ext", x |-> x]
Elem(i) == [kind |-> "elem", x |-> i]

ExtRefs == {Ext(x) : x \in Values}
ElemRefs(v) == {Elem(i) : i \in 1..size_[v]}

\* The value a reference denotes now: an element reference is an address
\* into the allocation that was v's block when the call began.
Deref(M, v, ref) ==
  IF ref.kind = "ext" THEN ref.x
  ELSE LET o == CHOOSE o \in Objs : M.ptr[o] = v IN M.cells[o][ref.x]

\* new (o + i - 1) T(std::forward<Args>(args)...): by the copy constructor
\* (const T&), by the move constructor (T&&), or by another constructor.
MayThrow(how) == IF how = "move" THEN ~T.NMC ELSE TRUE

NewElement(M, o, i, how, v, ref) ==
  IF M.threw THEN M
  ELSE LET b == CHOOSE b \in Objs : M.ptr[b] = v
       IN ConstructAt([M EXCEPT !.early = (M.made = 0 /\ M.cells[b] = data_[v])],
                      o, i, Deref(M, v, ref), MayThrow(how))

\* ---------------------------------------------------------------- Vector
\* A growth by one slot instead of a doubling.
GrowByOne(sz) == sz + 1

GrowCapacity(sz) == IF sz = 0 THEN 1 ELSE sz * 2

\* Vector::Swap
VectorSwap(M, v, w) ==
  IF M.threw THEN M
  ELSE RawMemorySwap([M EXCEPT !.size[v] = M.size[w], !.size[w] = M.size[v]], v, w)

\* Vector(size_t size) into the dead object v; the member data_ is released
\* when the body throws.
VectorN(M, v, n) ==
  LET m1 == SetSize(RawMemoryNew(M, v, n), v, n)
      m2 == UninitializedValueConstructN(m1, v, 1, n)
  IN IF m2.threw THEN [RawMemoryDelete(m2, v) EXCEPT !.size[v] = 0] ELSE m2

\* ~Vector()
VectorDelete(M, v) ==
  [RawMemoryDelete(Destroyed(M, v, 1, M.size[v]), v) EXCEPT !.size[v] = 0]

\* Vector(const Vector& other) into the dead object v
VectorCopy(M, v, other) ==
  LET n == M.size[other]
      m1 == SetSize(RawMemoryNew(M, v, n), v, n)
      m2 == IF T.NMC \/ ~T.CC
            THEN UninitializedMoveN(m1, other, 1, n, v, 1, TRUE)
            ELSE UninitializedCopyN(m1, other, 1, n, v, 1)
  IN IF m2.threw THEN [RawMemoryDelete(m2, v) EXCEPT !.size[v] = 0] ELSE m2

\* Vector(Vector&& other) into the dead object v
VectorMove(M, v, other) ==
  VectorSwap([M EXCEPT !.cells[v] = << >>, !.ptr[v] = "null", !.size[v] = 0], v, other)

\* A copy-assignment that leaves the common prefix as it was.
AssignPrefixSkipped(M, v, rhs, n) == M

\* for (i < n) operator[](i) = rhs[i]
AssignPrefix(M, v, rhs, n) ==
  IF M.threw THEN M
  ELSE LET fail == M.f \in 1..n
           done == IF fail THEN M.f - 1 ELSE n
           m1 == [M EXCEPT !.cells[v] = [i \in DOMAIN @ |->
                                          IF i \in 1..done THEN M.cells[rhs][i] ELSE @[i]],
                           !.f = IF M.f > n THEN M.f - n ELSE 0]
       IN IF fail THEN Raise(m1) ELSE m1

\* operator=(const Vector& rhs)
CopyAssign(M, v, rhs) ==
  IF v = rhs THEN M
  ELSE IF M.size[rhs] > Capacity(M, v)
  THEN LET m1 == VectorCopy(M, "rhs_copy", rhs)
           m2 == VectorSwap(m1, v, "rhs_copy")
       IN IF m1.threw THEN m1 ELSE VectorDelete(m2, "rhs_copy")
  ELSE LET sz == M.size[v]
           rsz == M.size[rhs]
           m1 == IF sz < rsz
                 THEN UninitializedCopyN(M, rhs, sz + 1, rsz - sz, v, sz + 1)
                 ELSE DestroyN(M, v, rsz + 1, sz - rsz)
           copy_count == Min(sz, rsz)
           m2 == SetSize(m1, v, rsz)
       IN AssignPrefix(m2, v, rhs, copy_count)

\* operator=(Vector&& rhs)
MoveAssign(M, v, rhs) ==
  IF v = rhs THEN M
  ELSE VectorSwap(SetSize(M, v, 0), v, rhs)

\* A relocation that moves whatever the traits of T are.
RelocateByMove(M, s, sfirst, n, d, dfirst) ==
  UninitializedMoveN(M, s, sfirst, n, d, dfirst, FALSE)

\* The relocation of n elements into a fresh block: by move when T's move
\* constructor is noexcept or T cannot be copied, else by copy.
Relocate(M, s, sfirst, n, d, dfirst) ==
  IF T.NMC \/ ~T.CC
  THEN UninitializedMoveN(M, s, sfirst, n, d, dfirst, FALSE)
  ELSE UninitializedCopyN(M, s, sfirst, n, d, dfirst)

\* A Reserve that reallocates whatever the capacity is.
ReserveAlways(M, v, new_capacity) ==
  IF M.threw THEN M
  ELSE LET m1 == RawMemoryNew(M, "new_data", new_capacity)
           m2 == Relocate(m1, v, 1, M.size[v], "new_data", 1)
           m3 == DestroyN(m2, v, 1, M.size[v])
           m4 == RawMemorySwap(m3, v, "new_data")
       IN RawMemoryDelete(m4, "new_data")

\* Reserve(new_capacity)
Reserve(M, v, new_capacity) ==
  IF M.threw \/ new_capacity <= Capacity(M, v) THEN M
  ELSE LET m1 == RawMemoryNew(M, "new_data", new_capacity)
           m2 == Relocate(m1, v, 1, M.size[v], "new_data", 1)
           m3 == DestroyN(m2, v, 1, M.size[v])
           m4 == RawMemorySwap(m3, v, "new_data")
       IN RawMemoryDelete(m4, "new_data")

\* Resize(new_size)
Resize(M, v, new_size) ==
  LET sz == M.size[v]
      m1 == IF sz < new_size
            THEN LET r == IF Capacity(M, v) < new_size THEN Reserve(M, v, new_size) ELSE M
                 IN UninitializedValueConstructN(r, v, sz + 1, new_size - sz)
            ELSE DestroyN(M, v, new_size + 1, sz - new_size)
  IN SetSize(m1, v, new_size)

\* A PushBack that constructs the new element after the relocation.
PushBackCopyLate(M, v, ref) ==
  LET sz == M.size[v]
      m1 == IF sz = Capacity(M, v)
            THEN LET n1 == RawMemoryNew(M, "new_data", GrowCapacity(sz))
                     n2 == Relocate(n1, v, 1, sz, "new_data", 1)
                     n3 == NewElement(n2, "new_data", sz + 1, "copy", v, ref)
                     n4 == RawMemorySwap(n3, v, "new_data")
                     n5 == DestroyN(n4, "new_data", 1, sz)
                 IN RawMemoryDelete(n5, "new_data")
            ELSE NewElement(M, v, sz + 1, "copy", v, ref)
  IN SetSize(m1, v, sz + 1)

\* PushBack(const T& value)
PushBackCopy(M, v, ref) ==
  LET sz == M.size[v]
      m1 == IF sz = Capacity(M, v)
            THEN LET n1 == RawMemoryNew(M, "new_data", GrowCapacity(sz))
                     n2 == NewElement(n1, "new_data", sz + 1, "copy", v, ref)
                     n3 == Relocate(n2, v, 1, sz, "new_data", 1)
                     n4 == RawMemorySwap(n3, v, "new_data")
                     n5 == DestroyN(n4, "new_data", 1, sz)
                 IN RawMemoryDelete(n5, "new_data")
            ELSE NewElement(M, v, sz + 1, "copy", v, ref)
  IN SetSize(m1, v, sz + 1)

\* PushBack(T&& value)
PushBackMove(M, v, ref) ==
  LET sz == M.size[v]
      m1 == IF sz = Capacity(M, v)
            THEN LET n1 == RawMemoryNew(M, "new_data", GrowCapacity(sz))
                     n2 == NewElement(n1, "new_data", sz + 1, "move", v, ref)
                     n3 == Relocate(n2, v, 1, sz, "new_data", 1)
                     n4 == RawMemorySwap(n3, v, "new_data")
                     n5 == DestroyN(n4, "new_data", 1, sz)
                 IN RawMemoryDelete(n5, "new_data")
            ELSE NewElement(M, v, sz + 1, "move", v, ref)
  IN SetSize(m1, v, sz + 1)

\* EmplaceBack(Args&&... args); the returned reference is data_[size_ - 1]
EmplaceBack(M, v, how, ref) ==
  LET sz == M.size[v]
      m1 == IF sz = Capacity(M, v)
            THEN LET n1 == RawMemoryNew(M, "new_data", GrowCapacity(sz))
                     n2 == NewElement(n1, "new_data", sz + 1, how, v, ref)
                     n3 == Relocate(n2, v, 1, sz, "new_data", 1)
                     n4 == RawMemorySwap(n3, v, "new_data")
                     n5 == DestroyN(n4, "new_data", 1, sz)
                 IN RawMemoryDelete(n5, "new_data")
            ELSE NewElement(M, v, sz + 1, how, v, ref)
  IN SetSize(m1, v, sz + 1)

\* PopBack()
PopBack(M, v) ==
  IF M.size[v] = 0 THEN M
  ELSE DestroyN(SetSize(M, v, M.size[v] - 1), v, M.size[v], 1)

\* A shift that moves nothing.
AssignBackwardSkipped(M, o, lo, hi, isMove, canThrow) == M

\* std::move_backward / std::copy_backward (o + lo - 1, o + hi, o + hi + 1):
\* the cells lo..hi are assigned to lo+1..hi+1, last first.
AssignBackward(M, o, lo, hi, isMove, canThrow) ==
  IF M.threw THEN M
  ELSE LET n == hi - lo + 1
           fail == canThrow /\ M.f \in 1..n
           done == IF fail THEN M.f - 1 ELSE n
           J == (hi - done + 1)..hi
           m1 == [M EXCEPT !.cells[o] = [i \in DOMAIN @ |->
                             IF (i - 1) \in J THEN @[i - 1]
                             ELSE IF i \in J /\ isMove THEN MovedFrom
                             ELSE @[i]],
                           !.f = IF ~canThrow THEN @ ELSE IF @ > n THEN @ - n ELSE 0]
       IN IF fail THEN Raise(m1) ELSE m1

\* std::move / std::copy (o + lo - 1, o + hi, o + lo - 2): the cells lo..hi
\* are assigned to lo-1..hi-1, first first.
AssignForward(M, o, lo, hi, isMove, canThrow) ==
  IF M.threw THEN M
  ELSE LET n == hi - lo + 1
           fail == canThrow /\ M.f \in 1..n
           done == IF fail THEN M.f - 1 ELSE n
           J == lo..(lo + done - 1)
           m1 == [M EXCEPT !.cells[o] = [i \in DOMAIN @ |->
                             IF (i + 1) \in J THEN @[i + 1]
                             ELSE IF i \in J /\ isMove THEN MovedFrom
                             ELSE @[i]],
                           !.f = IF ~canThrow THEN @ ELSE IF @ > n THEN @ - n ELSE 0]
       IN IF fail THEN Raise(m1) ELSE m1

\* The returned iterator: an address in a block.
Returning(M, blk, p) == IF M.threw THEN M ELSE [M EXCEPT !.ret = [blk |-> blk, idx |-> p]]

\* Emplace(const_iterator pos, Args&&... args), pos = begin() + p - 1
Emplace(M, v, p, how, ref) ==
  LET sz == M.size[v]
      m == IF p = sz + 1
           THEN EmplaceBack(M, v, how, ref)
           ELSE IF sz = Capacity(M, v)
           THEN LET n1 == RawMemoryNew(M, "new_data", GrowCapacity(sz))
                    n2 == NewElement(n1, "new_data", p, how, v, ref)
                    n3 == Relocate(Relocate(n2, v, 1, p - 1, "new_data", 1),
                                   v, p, sz - p + 1, "new_data", p + 1)
                    n4 == RawMemorySwap(n3, v, "new_data")
                    n5 == DestroyN(n4, "new_data", 1, sz)
                IN SetSize(RawMemoryDelete(n5, "new_data"), v, sz + 1)
           ELSE LET n1 == RawMemoryNew(M, "new_value", 1)
                    n2 == NewElement(n1, "new_value", 1, how, v, ref)
                    n3 == IF T.NMA \/ ~T.CA
                          THEN LET s1 == UninitializedMoveN(n2, v, sz, 1, v, sz + 1, FALSE)
                                   s2 == AssignBackward(s1, v, p, sz - 1, TRUE, ~T.NMA)
                                   s3 == AssignAt(s2, v, p, s2.cells["new_value"][1], ~T.NMA)
                               IN IF s3.threw THEN s3
                                  ELSE [s3 EXCEPT !.cells["new_value"] = <<MovedFrom>>]
                          ELSE LET s1 == UninitializedCopyN(n2, v, sz, 1, v, sz + 1)
                                   s2 == AssignBackward(s1, v, p, sz - 1, FALSE, TRUE)
                               IN AssignAt(s2, v, p, s2.cells["new_value"][1], TRUE)
                    n4 == DestroyN(n3, "new_value", 1, 1)
                IN SetSize(RawMemoryDelete(n4, "new_value"), v, sz + 1)
  IN Returning(m, m.ptr[v], p)

\* An Erase that destroys the last element without shifting the tail.
EraseLast(M, v, p) ==
  LET sz == M.size[v]
      m2 == SetSize(M, v, sz - 1)
      m3 == DestroyN(m2, v, sz, 1)
  IN Returning(m3, M.ptr[v], p)

\* Erase(const_iterator pos), pos = begin() + p - 1
Erase(M, v, p) ==
  LET sz == M.size[v]
      m1 == IF T.NMA
            THEN AssignForward(M, v, p + 1, sz, TRUE, FALSE)
            ELSE AssignForward(M, v, p + 1, sz, FALSE, TRUE)
      m2 == SetSize(m1, v, sz - 1)
      m3 == DestroyN(m2, v, sz, 1)
  IN Returning(m3, M.ptr[v], p)

\* Insert(const_iterator pos, const T& value)
InsertCopy(M, v, p, ref) == Emplace(M, v, p, "copy", ref)

\* Insert(const_iterator pos, T&& value)
InsertMove(M, v, p, ref) == Emplace(M, v, p, "move", ref)

\* --------------------------------------------------------------- actions
\* The machine at the start of a call whose k-th throwing element operation
\* throws.
Start(k) ==
  [cells  |-> [o \in Objs |-> IF o \in Vecs THEN data_[o] ELSE << >>],
   ptr    |-> [o \in Objs |-> IF o \in Vecs THEN o ELSE "null"],
   size   |-> [o \in VObjs |-> IF o \in Vecs THEN size_[o] ELSE 0],
   f      |-> k,
   threw  |-> FALSE,
   raised |-> FALSE,
   made   |-> 0,
   destroyed |-> 0,
   reused |-> 0,
   lost   |-> 0,
   dead   |-> 0,
   early  |-> FALSE,
   ret    |-> [blk |-> "null", idx |-> 0]]

NoArg == [p |-> 0, ref |-> [kind |-> "none", x |-> 0]]

\* The call returns (or throws) to the caller: the objects take their new
\* state, and last records the call.
Return(M, op, v, w, arg) ==
  /\ \A x \in Vecs : M.size[x] <= MaxSize
  /\ Len(M.cells["a"]) + Len(M.cells["b"]) <= MaxSlots
  /\ data_' = [x \in Vecs |-> M.cells[x]]
  /\ size_' = [x \in Vecs |-> M.size[x]]
  /\ last' = [op |-> op, v |-> v, w |-> w, ok |-> ~M.threw, raised |-> M.raised,
              made |-> M.made, destroyed |-> M.destroyed, reused |-> M.reused,
              lost |-> M.lost, dead |-> M.dead, early |-> M.early,
              blk |-> [x \in Vecs |-> M.ptr[x]],
              arg |-> arg,
              ret |-> M.ret]
  /\ pushedOnly' = IF op = "Vector" /\ v = "a" THEN TRUE
                   ELSE IF op \in {"PushBack", "PushBackMove"} /\ v = "a" THEN pushedOnly
                   ELSE IF "a" \in {v, w} THEN FALSE
                   ELSE pushedOnly
  /\ T' = T

Arg(p, ref) == [p |-> p, ref |-> ref]

CopyRefs(v) == ExtRefs \cup ElemRefs(v)

\* No call is in progress and none has just returned.
Idle ==
  [op |-> "none", v |-> "a", w |-> "a", ok |-> TRUE, raised |-> FALSE,
   made |-> 0, destroyed |-> 0, reused |-> 0, lost |-> 0, dead |-> 0,
   early |-> FALSE,
   blk |-> [x \in Vecs |-> x],
   arg |-> NoArg, ret |-> [blk |-> "null", idx |-> 0]]

Init ==
  /\ T \in Types
  /\ alive = [v \in Vecs |-> TRUE]
  /\ data_ = [v \in Vecs |-> << >>]
  /\ size_ = [v \in Vecs |-> 0]
  /\ pushedOnly = TRUE
  /\ last = Idle

\* Vector()
DoVector(v) ==
  /\ ~alive[v]
  /\ alive' = [alive EXCEPT ![v] = TRUE]
  /\ Return([Start(0) EXCEPT !.ptr[v] = "null"], "Vector", v, v, NoArg)

DoVectorN(v, n, k) ==
  /\ ~alive[v]
  /\ LET m == VectorN(Start(k), v, n)
     IN /\ alive' = [alive EXCEPT ![v] = ~m.threw]
        /\ Return(m, "VectorN", v, v, Arg(n, NoArg.ref))

DoVectorCopy(v, other, k) ==
  /\ ~alive[v] /\ alive[other] /\ T.CC
  /\ LET m == VectorCopy(Start(k), v, other)
     IN /\ alive' = [alive EXCEPT ![v] = ~m.threw]
        /\ Return(m, "VectorCopy", v, other, NoArg)

DoVectorMove(v, other) ==
  /\ ~alive[v] /\ alive[other]
  /\ alive' = [alive EXCEPT ![v] = TRUE]
  /\ Return(VectorMove(Start(0), v, other), "VectorMove", v, other, NoArg)

DoVectorDelete(v) ==
  /\ alive[v]
  /\ alive' = [alive EXCEPT ![v] = FALSE]
  /\ Return(VectorDelete(Start(0), v), "~Vector", v, v, NoArg)

DoCopyAssign(v, rhs, k) ==
  /\ alive[v] /\ alive[rhs] /\ T.CC /\ T.CA
  /\ Return(CopyAssign(Start(k), v, rhs), "CopyAssign", v, rhs, NoArg)
  /\ UNCHANGED alive

DoMoveAssign(v, rhs) ==
  /\ alive[v] /\ alive[rhs]
  /\ Return(MoveAssign(Start(0), v, rhs), "MoveAssign", v, rhs, NoArg)
  /\ UNCHANGED alive

DoSwap(v, other) ==
  /\ alive[v] /\ alive[other] /\ v # other
  /\ Return(VectorSwap(Start(0), v, other), "Swap", v, other, NoArg)
  /\ UNCHANGED alive

DoReserve(v, n, k) ==
  /\ alive[v]
  /\ Return(Reserve(Start(k), v, n), "Reserve", v, v, Arg(n, NoArg.ref))
  /\ UNCHANGED alive

DoResize(v, n, k) ==
  /\ alive[v]
  /\ Return(Resize(Start(k), v, n), "Resize", v, v, Arg(n, NoArg.ref))
  /\ UNCHANGED alive


DoPushBackCopy(v, ref, k) ==
  /\ alive[v] /\ T.CC
  /\ Return(PushBackCopy(Start(k), v, ref), "PushBack", v, v, Arg(size_[v] + 1, ref))
  /\ UNCHANGED alive

DoPushBackMove(v, ref, k) ==
  /\ alive[v]
  /\ Return(PushBackMove(Start(k), v, ref), "PushBackMove", v, v, Arg(size_[v] + 1, ref))
  /\ UNCHANGED alive

DoEmplaceBack(v, ref, k) ==
  /\ alive[v]
  /\ Return(EmplaceBack(Start(k), v, "args", ref), "EmplaceBack", v, v,
            Arg(size_[v] + 1, ref))
  /\ UNCHANGED alive

DoPopBack(v) ==
  /\ alive[v]
  /\ Return(PopBack(Start(0), v), "PopBack", v, v, NoArg)
  /\ UNCHANGED alive

DoEmplace(v, p, ref, k) ==
  /\ alive[v]
  /\ Return(Emplace(Start(k), v, p, "args", ref), "Emplace", v, v, Arg(p, ref))
  /\ UNCHANGED alive

DoInsertCopy(v, p, ref, k) ==
  /\ alive[v] /\ T.CC
  /\ Return(InsertCopy(Start(k), v, p, ref), "Insert", v, v, Arg(p, ref))
  /\ UNCHANGED alive

DoInsertMove(v, p, ref, k) ==
  /\ alive[v]
  /\ Return(InsertMove(Start(k), v, p, ref), "InsertMove", v, v, Arg(p, ref))
  /\ UNCHANGED alive

DoErase(v, p, k) ==
  /\ alive[v] /\ (T.NMA \/ T.CA)
  /\ Return(Erase(Start(k), v, p), "Erase", v, v, Arg(p, NoArg.ref))
  /\ UNCHANGED alive

\* The caller has seen the outcome of the call and goes on.
Continue ==
  /\ last.op # "none"
  /\ last' = Idle
  /\ UNCHANGED <<T, alive, data_, size_, pushedOnly>>

\* Which throwing element operation of the call throws: none (0), or the
\* k-th of the at most n the call performs.
Fails(n) == 0..Min(n, MaxFail)

\* A call begins when the caller has seen the outcome of the one before.  The
\* element-level operations are applied to the array a: Swap makes every
\* state of a a state of b.
Next ==
  \/ last.op = "none" /\ \E v \in Vecs : DoVector(v)
  \/ last.op = "none" /\ \E v \in Vecs, n \in 0..MaxSize : \E k \in Fails(n) : DoVectorN(v, n, k)
  \/ last.op = "none" /\ \E v \in Vecs, other \in Vecs : \E k \in Fails(size_[other]) : DoVectorCopy(v, other, k)
  \/ last.op = "none" /\ \E v \in Vecs, other \in Vecs : DoVectorMove(v, other)
  \/ last.op = "none" /\ \E v \in Vecs : DoVectorDelete(v)
  \/ last.op = "none" /\ \E v \in Vecs, rhs \in Vecs : \E k \in Fails(size_[rhs]) : DoCopyAssign(v, rhs, k)
  \/ last.op = "none" /\ \E v \in Vecs, rhs \in Vecs : DoMoveAssign(v, rhs)
  \/ last.op = "none" /\ DoSwap("a", "b")
  \/ last.op = "none" /\ \E n \in 0..MaxSize : \E k \in Fails(size_["a"]) : DoReserve("a", n, k)
  \/ last.op = "none" /\ \E n \in 0..MaxSize : \E k \in Fails(n) : DoResize("a", n, k)
  \/ last.op = "none" /\ \E ref \in CopyRefs("a"), k \in Fails(size_["a"] + 1) : DoPushBackCopy("a", ref, k)
  \/ last.op = "none" /\ \E ref \in ExtRefs, k \in Fails(size_["a"] + 1) : DoPushBackMove("a", ref, k)
  \/ last.op = "none" /\ \E ref \in ExtRefs, k \in Fails(size_["a"] + 1) : DoEmplaceBack("a", ref, k)
  \/ last.op = "none" /\ DoPopBack("a")
  \/ last.op = "none" /\ \E p \in 1..(size_["a"] + 1), ref \in ExtRefs, k \in Fails(size_["a"] + 2) :
       DoEmplace("a", p, ref, k)
  \/ last.op = "none" /\ \E p \in 1..(size_["a"] + 1), ref \in CopyRefs("a"), k \in Fails(size_["a"] + 2) :
       DoInsertCopy("a", p, ref, k)
  \/ last.op = "none" /\ \E p \in 1..(size_["a"] + 1), ref \in ExtRefs, k \in Fails(size_["a"] + 2) :
       DoInsertMove("a", p, ref, k)
  \/ last.op = "none" /\ \E p \in 1..size_["a"] : \E k \in Fails(size_["a"] - p) : DoErase("a", p, k)
  \/ Continue

Spec == Init /\ [][Next]_vars

\* ---------------------------------------------------------------- claims
\* The elements of array x, in order.
Elems(x) == SubSeq(data_[x], 1, size_[x])

InsertAt(s, p, x) == SubSeq(s, 1, p - 1) \o <<x>> \o SubSeq(s, p, Len(s))

RemoveAt(s, p) == SubSeq(s, 1, p - 1) \o SubSeq(s, p + 1, Len(s))

Max(x, y) == IF x > y THEN x ELSE y

\* What the reference argument denoted when the call began.
ValueOf(v, ref) == IF ref.kind = "ext" THEN ref.x ELSE data_[v][ref.x]

\* Size, capacity, cells and block of x are what they were before the call.
Untouched(x) ==
  /\ data_'[x] = data_[x]
  /\ size_'[x] = size_[x]
  /\ last'.blk[x] = x

\* Slots [0, size) of x hold live elements, slots [size, capacity) none.
WellFormed(x) ==
  /\ size_[x] <= Len(data_[x])
  /\ \A i \in DOMAIN data_[x] : Live(data_[x][i]) <=> i <= size_[x]

AppendOps == {"PushBack", "PushBackMove", "EmplaceBack"}
InsertOps == {"Emplace", "Insert", "InsertMove"}

\* T is relocated by copy: copy-constructible, move construction not noexcept.
CopyRelocated == T.CC /\ ~T.NMC

C2_Step ==
  (last'.op # "none" /\ last'.raised /\ CopyRelocated) =>
     /\ (last'.op \in AppendOps \cup InsertOps /\ size_[last'.v] = Len(data_[last'.v]))
          => (~last'.ok /\ Untouched(last'.v))
     /\ (last'.op = "Reserve" /\ last'.arg.p > Len(data_[last'.v]))
          => (~last'.ok /\ Untouched(last'.v))
     /\ (last'.op = "VectorCopy")
          => (~last'.ok /\ Untouched(last'.w) /\ ~alive'[last'.v])

\* C2: for an element type relocated by copy, a Reserve beyond the capacity,
\* a PushBack, EmplaceBack or Emplace/Insert on a full array, or a copy
\* construction, in which an element construction fails, leaves the original
\* array unchanged in size, capacity, contents and block, and the failure
\* reaches the caller.
C2_StrongGuarantee == [][C2_Step]_vars

\* A PushBack on a full array of a copy-relocated type has failed after the
\* new element and at least one relocated copy had been constructed.
C2_Witness ==
  /\ last.op = "PushBack" /\ ~last.ok /\ CopyRelocated
  /\ size_["a"] = Len(data_["a"]) /\ size_["a"] >= 2
  /\ last.made >= 2

C3_Step ==
  LET v == last'.v
      w == last'.w
      basic == \/ last'.op = "CopyAssign" /\ v # w /\ size_[w] <= Len(data_[v])
               \/ /\ last'.op \in InsertOps
                  /\ size_[v] < Len(data_[v])
                  /\ last'.arg.p # size_[v] + 1
               \/ last'.op = "Erase"
  IN (basic /\ last'.raised /\ WellFormed(v) /\ WellFormed(w)) =>
        /\ size_'[v] <= Len(data_'[v])
        /\ \A i \in DOMAIN data_'[v] : Live(data_'[v][i]) <=> i <= size_'[v]
        /\ last'.lost = 0 /\ last'.reused = 0 /\ last'.dead = 0

\* C3: when an element copy fails in the reuse branch of copy-assignment, in
\* Emplace/Insert without growth or in Erase, the array keeps a valid size
\* with slots [0, size) live, and every object constructed during the call
\* is inside the live range or has been destroyed exactly once.
C3_BasicGuarantee == [][C3_Step]_vars

\* C4: whenever a raw memory block is released, none of its slots holds a
\* live element.
C4_ReleasedBlocksHoldNothing == last.lost = 0

C5_Step ==
  LET v == last'.v
      p == last'.arg.p
  IN (last'.op \in InsertOps /\ last'.ok) =>
        /\ SubSeq(data_'[v], 1, size_'[v]) = InsertAt(Elems(v), p, ValueOf(v, last'.arg.ref))
        /\ size_'[v] = size_[v] + 1
        /\ last'.ret = [blk |-> last'.blk[v], idx |-> p]

\* C5: a completed Insert(pos, v)/Emplace(pos, args) at position p of the
\* contents s yields s[0..p) ++ [v] ++ s[p..size), size + 1, and returns the
\* position p of the array's block.
C5_InsertPlacesValue == [][C5_Step]_vars

\* An Insert without growth has shifted at least two elements.
C5_Witness ==
  /\ last.op = "Insert" /\ last.ok /\ last.blk["a"] = "a"
  /\ last.arg.p + 2 <= size_["a"]
  /\ data_["a"][last.arg.p] # data_["a"][last.arg.p + 1]

C6_Step ==
  LET v == last'.v
      p == last'.arg.p
  IN (last'.op = "Erase" /\ last'.ok) =>
        /\ SubSeq(data_'[v], 1, size_'[v]) = RemoveAt(Elems(v), p)
        /\ size_'[v] = size_[v] - 1
        /\ Len(data_'[v]) = Len(data_[v])
        /\ last'.blk[v] = v
        /\ last'.destroyed = 1
        /\ last'.ret = [blk |-> v, idx |-> p]

\* C6: a completed Erase(pos) at position p of the contents s yields
\* s[0..p) ++ s[p+1..size), size - 1, the same capacity, exactly one element
\* destroyed, and returns position p.
C6_EraseRemovesOne == [][C6_Step]_vars

\* An Erase has removed an element that two others followed.
C6_Witness ==
  /\ last.op = "Erase" /\ last.ok
  /\ last.arg.p + 1 <= size_["a"]
  /\ data_["a"][last.arg.p] # data_["a"][last.arg.p + 1]

\* The capacity after n PushBacks on an empty array: it changes at the
\* appends where the size would exceed it.
RECURSIVE CapacityAfter(_)
CapacityAfter(n) ==
  IF n = 0 THEN 0
  ELSE LET c == CapacityAfter(n - 1)
       IN IF n > c THEN Max(1, 2 * c) ELSE c

C7_Step ==
  LET v == last'.v
  IN /\ (last'.op \in AppendOps \cup InsertOps /\ last'.ok) =>
          Len(data_'[v]) = IF size_[v] = Len(data_[v])
                           THEN Max(1, 2 * Len(data_[v]))
                           ELSE Len(data_[v])
     /\ pushedOnly' =>
          /\ Len(data_'["a"]) = CapacityAfter(size_'["a"])
          /\ Len(data_'["a"]) \in {0, 1, 2, 4, 8}

\* C7: a completed PushBack, EmplaceBack or Emplace/Insert on a full array
\* leaves the capacity max(1, 2 x old capacity), on an array that is not full
\* the old capacity; repeated PushBack on a default-constructed array walks
\* the capacities 1, 2, 4, 8.
C7_GrowthPolicy == [][C7_Step]_vars

\* Three PushBacks on a default-constructed array: size 3, capacity 4.
C7_Witness ==
  /\ last.op = "PushBack" /\ last.ok /\ pushedOnly
  /\ size_["a"] = 3 /\ Len(data_["a"]) = 4
  /\ last.blk["a"] = "new_data"

C8_Step ==
  LET v == last'.v
      k == last'.arg.p
  IN (last'.op = "Reserve") =>
        /\ k <= Len(data_[v]) => (last'.ok /\ Untouched(v) /\ last'.made = 0)
        /\ (k > Len(data_[v]) /\ last'.ok) =>
              /\ Len(data_'[v]) = k
              /\ size_'[v] = size_[v]
              /\ SubSeq(data_'[v], 1, size_'[v]) = Elems(v)

\* C8: Reserve(k) with k <= Capacity() changes nothing; a completed
\* Reserve(k) with k > Capacity() makes the capacity k, keeps the size and
\* the elements in their order.
C8_Reserve == [][C8_Step]_vars

\* A Reserve has relocated two different elements into a larger block.
C8_Witness ==
  /\ last.op = "Reserve" /\ last.ok /\ last.blk["a"] = "new_data"
  /\ size_["a"] >= 2 /\ data_["a"][1] # data_["a"][2]
  /\ Len(data_["a"]) = last.arg.p

C9_Step ==
  LET v == last'.v
      w == last'.w
  IN (last'.op = "CopyAssign" /\ last'.ok) =>
        IF v = w
        THEN Untouched(v) /\ last'.made = 0 /\ last'.destroyed = 0
        ELSE /\ SubSeq(data_'[v], 1, size_'[v]) = Elems(w)
             /\ size_'[v] = size_[w]
             /\ Untouched(w)
             /\ last'.blk[v] # last'.blk[w]
             /\ IF size_[w] > Len(data_[v])
                THEN Len(data_'[v]) = size_[w] /\ last'.blk[v] = "rhs_copy"
                ELSE /\ Len(data_'[v]) = Len(data_[v])
                     /\ last'.blk[v] = v
                     /\ last'.made = Max(0, size_[w] - size_[v])
                     /\ last'.destroyed = Max(0, size_[v] - size_[w])

\* C9: a completed copy-assignment a = b leaves a with the size and the
\* elements of b, b unchanged and the blocks distinct; a's capacity becomes
\* b.size in a fresh block when b.size exceeded it, else capacity and block
\* stay, the extra trailing elements are constructed or the excess ones
\* destroyed; a = a changes nothing.
C9_CopyAssign == [][C9_Step]_vars

\* A copy-assignment has reused the block: it assigned over a prefix that
\* differed and constructed a trailing element.
C9_Witness ==
  /\ last.op = "CopyAssign" /\ last.ok /\ last.v # last.w
  /\ last.blk[last.v] = last.v
  /\ last.made >= 1 /\ size_[last.v] >= 2

C10_Step ==
  LET v == last'.v
      p == last'.arg.p
  IN ((last'.op \in AppendOps \cup InsertOps) /\ last'.ok) =>
        /\ last'.early
        /\ (last'.arg.ref.kind = "elem") =>
              data_'[v][p] = data_[v][last'.arg.ref.x]

\* C10: the new value is constructed before any existing element is
\* relocated or shifted; so PushBack(x[i]) and Insert(pos, x[i]) add the
\* value x[i] had before the call, with and without growth, under move and
\* under copy relocation.
C10_NewValueFirst == [][C10_Step]_vars

\* Insert(pos, x[i]) has grown the array of a type relocated by move, with
\* x[i] at or after pos.
C10_Witness ==
  /\ last.op = "Insert" /\ last.ok /\ last.arg.ref.kind = "elem"
  /\ last.blk["a"] = "new_data" /\ T.NMC
  /\ last.arg.ref.x >= last.arg.p
  /\ size_["a"] >= 3

====
